---- MODULE Spec2Model ----
(***************************************************************************)
(* gowsdl: WSDL/XSD ingestion (GoWSDL.unmarshal, resolveXSDExternals,      *)
(* downloadSchemaIfRequired), type deduplication (removeTypeDuplicates),   *)
(* the template helper functions (createTmplFunctions) and the emission    *)
(* orchestration of GoWSDL.Start, as a state machine.                      *)
(*                                                                         *)
(* A location is a natural number standing for the canonical string of a  *)
(* Location (loc.String()): 0 is the root WSDL, ExtLocs are the external    *)
(* XSD documents of the small worlds, FanLocs those of the wide world.     *)
(* A schemaLocation attribute is the number of the location it resolves    *)
(* to, or NoRef for the empty string.                                      *)
(***************************************************************************)
EXTENDS Integers, Sequences, FiniteSets, TLC

(* ------------------------------ bounds -------------------------------- *)
\* import/include references in a small world, all schemas together
MaxRefs == 3
\* external documents of the wide world
MaxFan == 256
\* characters of an identifier or type reference handed to a helper
MaxIdentLen == 3
\* type declarations in the schemas handed to removeTypeDuplicates
MaxTypes == 4

(* ------------------------- program constants -------------------------- *)
\* const maxRecursion uint8 = 100
maxRecursion == 100
\* currentRecursionLevel uint8: arithmetic is modulo 2^8
Uint8Range == 256

NoRef == 0 - 1
RootLoc == 0

(* ------------------------------ helpers ------------------------------- *)
Last(s) == s[Len(s)]
Front(s) == SubSeq(s, 1, Len(s) - 1)
Range(s) == {s[i] : i \in 1..Len(s)}
Count(s, x) == Cardinality({i \in 1..Len(s) : s[i] = x})

RECURSIVE SeqsUpTo(_, _)
SeqsUpTo(S, n) ==
  IF n = 0 THEN {<<>>}
  ELSE LET shorter == SeqsUpTo(S, n - 1)
       IN shorter \cup {Append(s, x) : s \in {t \in shorter : Len(t) = n - 1}, x \in S}

(* ------------------------- the documents (input) ---------------------- *)
(* A world is what the fetcher finds: the schemas embedded in the root     *)
(* WSDL and the external documents, each with its ordered Imports and      *)
(* Includes (XSDSchema.Imports, XSDSchema.Includes).                       *)
ExtLocs == {1, 2}
\* how many schemas the root WSDL may embed
RootCounts == {0, 1, 2}
EmptyShape == [Imports |-> <<>>, Includes |-> <<>>]
EmptyWorld(n) ==
  [roots |-> [i \in 1..n |-> EmptyShape],
   ext   |-> [l \in ExtLocs |-> EmptyShape],
   fan   |-> 0]

\* a reference of an embedded schema carries an empty schemaLocation (NoRef) or
\* names an external document; a reference of an external document names an
\* external document or the root WSDL itself
RootTargets == {NoRef} \cup ExtLocs
ExtTargets == {RootLoc} \cup ExtLocs

AddRootRef(w, i, field, t) ==
  [w EXCEPT !.roots[i][field] = Append(@, t)]
AddExtRef(w, l, field, t) ==
  [w EXCEPT !.ext[l][field] = Append(@, t)]

Referenced(w, l) ==
  \/ \E i \in 1..Len(w.roots) :
        l \in Range(w.roots[i].Imports) \cup Range(w.roots[i].Includes)
  \/ \E m \in ExtLocs :
        l \in Range(w.ext[m].Imports) \cup Range(w.ext[m].Includes)

RECURSIVE SmallWorlds(_, _)
SmallWorlds(n, k) ==
  IF k = 0 THEN {EmptyWorld(n)}
  ELSE LET prev == SmallWorlds(n, k - 1)
       IN prev
          \cup {AddRootRef(w, i, f, t) :
                  w \in prev, i \in 1..n, f \in {"Imports", "Includes"}, t \in RootTargets}
          \cup UNION {{AddExtRef(w, l, f, t) :
                         l \in {m \in ExtLocs : Referenced(w, m)},
                         f \in {"Imports", "Includes"}, t \in ExtTargets} :
                      w \in prev}

\* the wide world: one embedded schema importing the documents FanLoc(1),
\* ..., FanLoc(MaxFan), each of which imports the next one
FanLoc(k) == Cardinality(ExtLocs) + k
FanLocs == {FanLoc(k) : k \in 1..MaxFan}
WideWorld ==
  [roots |-> <<[Imports |-> [k \in 1..MaxFan |-> FanLoc(k)], Includes |-> <<>>]>>,
   ext   |-> [l \in ExtLocs |-> EmptyShape],
   fan   |-> MaxFan]

Worlds == UNION {SmallWorlds(n, MaxRefs) : n \in RootCounts} \cup {WideWorld}

AllLocs == ExtLocs \cup FanLocs


(* What the Schema Ingestor parses out of the document at a location.     *)
(* Root schemas and external documents declare types under fixed names so *)
(* that duplicates arise across documents.                                 *)
XSDType(n) == [Name |-> n]
DocNamespace(l) == IF l = RootLoc THEN "urn:root" ELSE "urn:ext"
DocSimpleTypes(l) == IF l = RootLoc THEN <<>> ELSE <<XSDType("T")>>
DocComplexTypes(l) ==
  IF l = RootLoc THEN <<XSDType("T")>>
  ELSE IF l = 1 THEN <<XSDType("T"), XSDType("U")>>
  ELSE <<XSDType("U"), XSDType("V")>>

FanShape(w, l) ==
  [Imports  |-> IF l + 1 \in {FanLoc(k) : k \in 1..w.fan} THEN <<l + 1>> ELSE <<>>,
   Includes |-> <<>>]
DocShape(w, l) ==
  IF l \in ExtLocs THEN w.ext[l]
  ELSE IF l = RootLoc THEN EmptyShape  \* a WSDL read as an XSD: no schema content
  ELSE FanShape(w, l)

\* xml.Unmarshal(data, newSchema): the XSDSchema parsed from the document at l
ParsedSchema(w, l) ==
  [loc             |-> l,
   TargetNamespace |-> DocNamespace(l),
   SimpleType      |-> DocSimpleTypes(l),
   ComplexTypes    |-> DocComplexTypes(l),
   Imports         |-> DocShape(w, l).Imports,
   Includes        |-> DocShape(w, l).Includes]

\* xml.Unmarshal(data, g.wsdl): the schemas embedded in the root WSDL
RootSchemas(w) ==
  [i \in 1..Len(w.roots) |->
     [loc             |-> RootLoc,
      TargetNamespace |-> DocNamespace(RootLoc),
      SimpleType      |-> DocSimpleTypes(RootLoc),
      ComplexTypes    |-> DocComplexTypes(RootLoc),
      Imports         |-> w.roots[i].Imports,
      Includes        |-> w.roots[i].Includes]]

(* ------------------------------- state -------------------------------- *)
VARIABLES
  world,                  \* the documents the fetcher finds (fixed per run)
  ignoreTypeNs,           \* GoWSDL.ignoreTypeNs
  exportAllTypes,         \* GoWSDL.exportAllTypes
  pc,                     \* where Start is
  schemas,                \* g.wsdl.Types.Schemas
  resolvedXSDExternals,   \* GoWSDL.resolvedXSDExternals: the keys mapped to true
  currentRecursionLevel,  \* GoWSDL.currentRecursionLevel (uint8)
  stack,                  \* the active resolveXSDExternals calls, innermost last
  rootIdx,                \* unmarshal's range index over the embedded schemas
  err,                    \* the error value being returned up the call chain
  fetchLog,               \* every fetchFile call so far, in order (history)
  expanded,               \* resolver entries that went on to expand a schema (history)
  refined,                \* whether refineRawWsdlData has run (history)
  gocode,                 \* Start's map of artifacts: the keys set so far
  task,                   \* where each of Start's two goroutines is
  local,                  \* what each gen* call returned: [data, err]
  raced,                  \* goroutines whose map write overlapped the other's
  started,                \* artifacts whose rendering was begun (history)
  failed,                 \* artifacts whose rendering returned an error (history)
  startRet,               \* what Start returned
  call,                   \* a helper function under evaluation: its name and arguments
  ret,                    \* what that helper returned
  data                    \* the buffer Generate fills

resolverVars ==
  <<world, ignoreTypeNs, exportAllTypes, pc, schemas, resolvedXSDExternals,
    currentRecursionLevel, stack, rootIdx, err, fetchLog, expanded, refined>>
emitVars == <<gocode, task, local, raced, started, failed, startRet>>
fnVars == <<call, ret>>

NoError == "nil"

\* Start's results (map[string][]byte, error): a map is the function from the
\* keys set to their bytes, the nil map is told apart from an empty one
NilMap == [isNil |-> TRUE]
NotReturned == [returned |-> FALSE]
Returned(m, e) == [returned |-> TRUE, gocode |-> m, err |-> e]
FetchError == "fetch failed"
ParseError == "parse failed"
LocationError == "bad location"

(* ---------------------- External Reference Resolver ------------------- *)
\* g.resolvedXSDExternals[key]
IsResolvedMut(key) == FALSE
IsResolved(key) == key \in resolvedXSDExternals

\* g.currentRecursionLevel++ on a uint8
IncrementLevel(level) == (level + 1) % Uint8Range

\* g.currentRecursionLevel > maxRecursion
AboveCeiling(level) == level > maxRecursion

\* `if err != nil { break }` at the head of both loops
LoopBreaksMut(e) == FALSE
LoopBreaks(e) == e # NoError

Frame(s, l) == [schema |-> s, loc |-> l, at |-> "enter", i |-> 1]
Top == Last(stack)
SetTop(f) == [stack EXCEPT ![Len(stack)] = f]

\* the loop resolveXSDExternals runs first: the one over schema.Imports
FirstLoopMut == "includes"
FirstLoop == "imports"

\* what resolveXSDExternals returns above the ceiling: `return nil`
CeilingReturnMut == "recursion limit"
CeilingReturn == NoError

\* entry of resolveXSDExternals up to the first loop
ResolveEnter ==
  /\ pc = "resolve"
  /\ stack # <<>>
  /\ Top.at = "enter"
  /\ LET level == IncrementLevel(currentRecursionLevel)
     IN /\ currentRecursionLevel' = level
        /\ IF AboveCeiling(level) \/ IsResolved(Top.loc)
           THEN \* return nil
                /\ stack' = Front(stack)
                /\ UNCHANGED <<resolvedXSDExternals, expanded>>
           ELSE \* mark the key, `var err error`, go on to the loops
                /\ resolvedXSDExternals' = resolvedXSDExternals \cup {Top.loc}
                /\ expanded' = expanded + 1
                /\ stack' = SetTop([Top EXCEPT !.at = FirstLoop])
        /\ err' = IF AboveCeiling(level) THEN CeilingReturn ELSE NoError
  /\ UNCHANGED <<world, ignoreTypeNs, exportAllTypes, pc, schemas, rootIdx,
                 fetchLog, refined>>
  /\ UNCHANGED <<emitVars, fnVars, data>>

\* g.wsdl.Types.Schemas = append(g.wsdl.Types.Schemas, newSchema)
AppendSchemaMut(ss, newSchema) == <<newSchema>> \o ss
AppendSchema(ss, newSchema) == Append(ss, newSchema)

\* handleExternalSchema(loc, ref) with downloadSchemaIfRequired inlined; `rest`
\* is the caller's frame after the call.  outcome is what base.Parse, fetchFile
\* and xml.Unmarshal do for this reference.
HandleExternalSchema(ref, rest, outcome) ==
  IF outcome = LocationError
  THEN \* base.Parse(locationRef) failed
       /\ err' = LocationError
       /\ stack' = SetTop(rest)
       /\ UNCHANGED <<schemas, fetchLog>>
  ELSE IF IsResolved(ref)
  THEN \* already resolved: newSchema = nil, err = nil
       /\ outcome = NoError
       /\ err' = NoError
       /\ stack' = SetTop(rest)
       /\ UNCHANGED <<schemas, fetchLog>>
  ELSE /\ fetchLog' = Append(fetchLog, ref)
       /\ IF outcome = NoError
          THEN /\ schemas' = AppendSchema(schemas, ParsedSchema(world, ref))
               /\ stack' = Append(SetTop(rest), Frame(Len(schemas) + 1, ref))
               /\ err' = NoError
          ELSE /\ err' = outcome
               /\ stack' = SetTop(rest)
               /\ UNCHANGED schemas

\* one turn of `for _, impt := range schema.Imports`
ImportStep ==
  /\ pc = "resolve"
  /\ stack # <<>>
  /\ Top.at = "imports"
  /\ LET refs == schemas[Top.schema].Imports
     IN IF Top.i > Len(refs) \/ LoopBreaks(err)
        THEN /\ stack' = SetTop([Top EXCEPT !.at = "includes", !.i = 1])
             /\ UNCHANGED <<schemas, fetchLog, err>>
        ELSE IF refs[Top.i] = NoRef
        THEN \* impt.SchemaLocation == "": warn and continue
             /\ stack' = SetTop([Top EXCEPT !.i = @ + 1])
             /\ UNCHANGED <<schemas, fetchLog, err>>
        ELSE \E outcome \in {NoError, LocationError, FetchError, ParseError} :
               HandleExternalSchema(refs[Top.i], [Top EXCEPT !.i = @ + 1], outcome)
  /\ UNCHANGED <<world, ignoreTypeNs, exportAllTypes, pc, resolvedXSDExternals,
                 currentRecursionLevel, rootIdx, expanded, refined>>
  /\ UNCHANGED <<emitVars, fnVars, data>>

\* one turn of `for _, incl := range schema.Includes`, and the final `return err`
IncludeStep ==
  /\ pc = "resolve"
  /\ stack # <<>>
  /\ Top.at = "includes"
  /\ LET refs == schemas[Top.schema].Includes
     IN IF Top.i > Len(refs) \/ LoopBreaks(err)
        THEN \* return err
             /\ stack' = Front(stack)
             /\ UNCHANGED <<schemas, fetchLog, err>>
        ELSE IF refs[Top.i] = NoRef
        THEN /\ stack' = SetTop([Top EXCEPT !.i = @ + 1])
             /\ UNCHANGED <<schemas, fetchLog, err>>
        ELSE \E outcome \in {NoError, LocationError, FetchError, ParseError} :
               HandleExternalSchema(refs[Top.i], [Top EXCEPT !.i = @ + 1], outcome)
  /\ UNCHANGED <<world, ignoreTypeNs, exportAllTypes, pc, resolvedXSDExternals,
                 currentRecursionLevel, rootIdx, expanded, refined>>
  /\ UNCHANGED <<emitVars, fnVars, data>>

\* unmarshal up to its loop: fetch and parse the root WSDL, make the visited map
Unmarshal ==
  /\ pc = "start"
  /\ fetchLog' = Append(fetchLog, RootLoc)
  /\ \E outcome \in {NoError, FetchError, ParseError} :
       IF outcome = NoError
       THEN /\ schemas' = RootSchemas(world)
            /\ resolvedXSDExternals' = {}
            /\ rootIdx' = 1
            /\ pc' = "resolve"
            /\ UNCHANGED err
            /\ UNCHANGED startRet
       ELSE \* unmarshal returns err, Start returns (nil, err)
            /\ err' = outcome
            /\ pc' = "done"
            /\ startRet' = Returned(NilMap, outcome)
            /\ UNCHANGED <<schemas, resolvedXSDExternals, rootIdx>>
  /\ UNCHANGED <<world, ignoreTypeNs, exportAllTypes, currentRecursionLevel, stack,
                 expanded, refined>>
  /\ UNCHANGED <<gocode, task, local, raced, started, failed, fnVars, data>>

\* `for _, schema := range g.wsdl.Types.Schemas` in unmarshal: the range is over
\* the embedded schemas only (the slice as it was when the loop began)
UnmarshalLoop ==
  /\ pc = "resolve"
  /\ stack = <<>>
  /\ IF err # NoError
     THEN \* return err; Start returns (nil, err)
          /\ pc' = "done"
          /\ startRet' = Returned(NilMap, err)
          /\ UNCHANGED <<stack, rootIdx>>
     ELSE IF rootIdx <= Len(world.roots)
     THEN /\ stack' = <<Frame(rootIdx, RootLoc)>>
          /\ rootIdx' = rootIdx + 1
          /\ UNCHANGED <<pc, startRet>>
     ELSE \* return nil
          /\ pc' = "refine"
          /\ UNCHANGED <<stack, rootIdx, startRet>>
  /\ UNCHANGED <<world, ignoreTypeNs, exportAllTypes, schemas, resolvedXSDExternals,
                 currentRecursionLevel, err, fetchLog, expanded, refined>>
  /\ UNCHANGED <<gocode, task, local, raced, started, failed, fnVars, data>>


(* --------------------------- Type Deduplicator ------------------------ *)
\* getFullTypeName
getFullTypeNameMut(typeName, ns, ignore) == ns
getFullTypeNameNoNs(typeName, ns, ignore) == typeName
getFullTypeName(typeName, ns, ignore) ==
  IF ~ignore THEN ns \o ":" \o typeName ELSE typeName

\* one `for ... range` over a type list of a schema: the types kept and the
\* dictionary afterwards
RECURSIVE UniqueTypes(_, _, _, _)
UniqueTypesMut(types, ns, ignore, handledTypesDict) ==
  [unique |-> IF types = <<>> THEN <<>> ELSE Tail(types), dict |-> handledTypesDict]
UniqueTypes(types, ns, ignore, handledTypesDict) ==
  IF types = <<>> THEN [unique |-> <<>>, dict |-> handledTypesDict]
  ELSE LET fullTypeName == getFullTypeName(Head(types).Name, ns, ignore)
       IN IF fullTypeName \in handledTypesDict
          THEN UniqueTypes(Tail(types), ns, ignore, handledTypesDict)
          ELSE LET r == UniqueTypes(Tail(types), ns, ignore,
                                    handledTypesDict \cup {fullTypeName})
               IN [unique |-> <<Head(types)>> \o r.unique, dict |-> r.dict]

\* the body of `for _, schema := range wsdlType.Schemas`, from schema i on
RECURSIVE DedupFrom(_, _, _, _)
DedupFrom(ss, i, ignore, handledTypesDict) ==
  IF i > Len(ss) THEN ss
  ELSE LET st == UniqueTypes(ss[i].SimpleType, ss[i].TargetNamespace, ignore,
                             handledTypesDict)
           ct == UniqueTypes(ss[i].ComplexTypes, ss[i].TargetNamespace, ignore,
                             st.dict)
       IN DedupFrom([ss EXCEPT ![i].SimpleType = st.unique,
                               ![i].ComplexTypes = ct.unique],
                    i + 1, ignore, ct.dict)

\* WSDLType.removeTypeDuplicates (reached through WSDL.refine)
removeTypeDuplicates(ss, ignore) == DedupFrom(ss, 1, ignore, {})

(* ------------------------ Code Emission Orchestrator ------------------ *)
Goroutines == {"types", "operations"}
Artifacts == {"types", "operations", "header", "soap"}
Other(g) == IF g = "types" THEN "operations" ELSE "types"

\* the bytes a successful template execution yields, and a nil []byte
Rendered(a) == a \o " code"
EmptyBytes == ""
RenderError == "template failed"

\* gen*(): (data.Bytes(), nil), or (nil, err) when tmpl.Execute fails
NoResult == [data |-> EmptyBytes, err |-> NoError]
GenResult(a, ok) ==
  IF ok THEN [data |-> Rendered(a), err |-> NoError]
  ELSE [data |-> EmptyBytes, err |-> RenderError]

\* gocode[k] of a Go map: the zero value for a key never set
Entry(m, k) == IF m # NilMap /\ k \in DOMAIN m THEN m[k] ELSE EmptyBytes
Store(m, k, v) == (k :> v) @@ m

\* g.refineRawWsdlData() and the launch of the two goroutines (the traverser and
\* createTmplFunctions touch nothing of this state)
Refine ==
  /\ pc = "refine"
  /\ schemas' = removeTypeDuplicates(schemas, ignoreTypeNs)
  /\ refined' = TRUE
  /\ task' = [g \in Goroutines |-> "ready"]
  /\ pc' = "render"
  /\ UNCHANGED <<world, ignoreTypeNs, exportAllTypes, resolvedXSDExternals,
                 currentRecursionLevel, stack, rootIdx, err, fetchLog, expanded>>
  /\ UNCHANGED <<gocode, local, raced, started, failed, startRet, fnVars, data>>

\* a goroutine evaluates g.genTypes() / g.genOperations()
Render(g) ==
  /\ pc = "render"
  /\ task[g] = "ready"
  /\ \E ok \in BOOLEAN :
       /\ local' = [local EXCEPT ![g] = GenResult(g, ok)]
       /\ failed' = IF ok THEN failed ELSE failed \cup {g}
  /\ task' = [task EXCEPT ![g] = "rendered"]
  /\ started' = started \cup {g}
  /\ UNCHANGED <<resolverVars, gocode, raced, startRet, fnVars, data>>

\* the goroutine enters the assignment gocode[g] = ... : the map is shared by
\* both goroutines and nothing orders their writes
BeginAssign(g) ==
  /\ pc = "render"
  /\ task[g] = "rendered"
  /\ task' = [task EXCEPT ![g] = "writing"]
  /\ raced' = IF task[Other(g)] = "writing" THEN Goroutines ELSE raced
  /\ UNCHANGED <<resolverVars, gocode, local, started, failed, startRet, fnVars, data>>

\* the assignment ends, the error is logged, wg.Done() runs and the goroutine
\* (with its locals) is gone.  An unsynchronized
\* write that overlapped the other goroutine's is a data race on the map: the
\* entry is stored, or lost, or the runtime stops the process ("concurrent map
\* writes").
EndAssign(g) ==
  /\ pc = "render"
  /\ task[g] = "writing"
  /\ \E outcome \in IF g \in raced THEN {"stored", "lost", "fatal"} ELSE {"stored"} :
       /\ gocode' = IF outcome = "stored" THEN Store(gocode, g, local[g].data)
                    ELSE gocode
       /\ pc' = IF outcome = "fatal" THEN "crashed" ELSE pc
       /\ task' = IF outcome = "fatal" THEN task ELSE [task EXCEPT ![g] = "done"]
       /\ local' = IF outcome = "fatal" THEN local ELSE [local EXCEPT ![g] = NoResult]
  /\ UNCHANGED <<world, ignoreTypeNs, exportAllTypes, schemas, resolvedXSDExternals,
                 currentRecursionLevel, stack, rootIdx, err, fetchLog, expanded,
                 refined>>
  /\ UNCHANGED <<raced, started, failed, startRet, fnVars, data>>

\* wg.Wait() returns once every goroutine has called wg.Done()
WaitGroupZeroMut(t) == TRUE
WaitGroupZero(t) == \A g \in Goroutines : t[g] = "done"
Wait ==
  /\ pc = "render"
  /\ WaitGroupZero(task)
  /\ pc' = "header"
  /\ UNCHANGED <<world, ignoreTypeNs, exportAllTypes, schemas, resolvedXSDExternals,
                 currentRecursionLevel, stack, rootIdx, err, fetchLog, expanded,
                 refined>>
  /\ UNCHANGED <<emitVars, fnVars, data>>

\* gocode["header"], err = g.genHeader()
GenHeader ==
  /\ pc = "header"
  /\ \E ok \in BOOLEAN :
       /\ gocode' = Store(gocode, "header", GenResult("header", ok).data)
       /\ err' = GenResult("header", ok).err
       /\ failed' = IF ok THEN failed ELSE failed \cup {"header"}
  /\ started' = started \cup {"header"}
  /\ pc' = "soap"
  /\ UNCHANGED <<world, ignoreTypeNs, exportAllTypes, schemas, resolvedXSDExternals,
                 currentRecursionLevel, stack, rootIdx, fetchLog, expanded, refined>>
  /\ UNCHANGED <<task, local, raced, startRet, fnVars, data>>

\* gocode["soap"], err = g.genSOAPClient(); return gocode, nil
GenSOAPClient ==
  /\ pc = "soap"
  /\ \E ok \in BOOLEAN :
       /\ gocode' = Store(gocode, "soap", GenResult("soap", ok).data)
       /\ err' = GenResult("soap", ok).err
       /\ failed' = IF ok THEN failed ELSE failed \cup {"soap"}
  /\ started' = started \cup {"soap"}
  /\ startRet' = Returned(gocode', NoError)
  /\ pc' = "done"
  /\ UNCHANGED <<world, ignoreTypeNs, exportAllTypes, schemas, resolvedXSDExternals,
                 currentRecursionLevel, stack, rootIdx, fetchLog, expanded, refined>>
  /\ UNCHANGED <<task, local, raced, fnVars, data>>

(* ------------------------- Mapper / Lookup Helpers -------------------- *)
\* A Go string is modelled as the sequence of its characters, so that the
\* helpers act on it character by character as the code does.
Lower == <<"a", "b", "c", "d", "e", "f", "g", "h", "i", "j", "k", "l", "m",
           "n", "o", "p", "q", "r", "s", "t", "u", "v", "w", "x", "y", "z">>
Upper == <<"A", "B", "C", "D", "E", "F", "G", "H", "I", "J", "K", "L", "M",
           "N", "O", "P", "Q", "R", "S", "T", "U", "V", "W", "X", "Y", "Z">>
Digits == {"0", "1", "2", "3", "4", "5", "6", "7", "8", "9"}
IsLetter(r) == r \in Range(Lower) \cup Range(Upper)
IsDigit(r) == r \in Digits
ToUpper(r) ==
  IF r \in Range(Lower) THEN Upper[CHOOSE i \in DOMAIN Lower : Lower[i] = r] ELSE r
ToLower(r) ==
  IF r \in Range(Upper) THEN Lower[CHOOSE i \in DOMAIN Upper : Upper[i] = r] ELSE r
StringsToLower(s) == [i \in DOMAIN s |-> ToLower(s[i])]

\* strings.Split(s, sep) for a one-character separator
RECURSIVE SplitFrom(_, _, _)
SplitFrom(s, sep, part) ==
  IF s = <<>> THEN <<part>>
  ELSE IF Head(s) = sep THEN <<part>> \o SplitFrom(Tail(s), sep, <<>>)
  ELSE SplitFrom(Tail(s), sep, Append(part, Head(s)))
Split(s, sep) == SplitFrom(s, sep, <<>>)

\* the keys of the reservedWords table; every entry maps its key to the key
\* followed by an underscore
ReservedKeys ==
  {
<<"b", "r", "e", "a", "k">>,
   <<"d", "e", "f", "a", "u", "l", "t">>,
   <<"f", "u", "n", "c">>,
   <<"i", "n", "t", "e", "r", "f", "a", "c", "e">>,
   <<"s", "e", "l", "e", "c", "t">>,
   <<"c", "a", "s", "e">>,
   <<"d", "e", "f", "e", "r">>,
   <<"g", "o">>,
   <<"m", "a", "p">>,
   <<"s", "t", "r", "u", "c", "t">>,
   <<"c", "h", "a", "n">>,
   <<"e", "l", "s", "e">>,
   <<"g", "o", "t", "o">>,
   <<"p", "a", "c", "k", "a", "g", "e">>,
   <<"s", "w", "i", "t", "c", "h">>,
   <<"c", "o", "n", "s", "t">>,
   <<"f", "a", "l", "l", "t", "h", "r", "o", "u", "g", "h">>,
   <<"i", "f">>,
   <<"r", "a", "n", "g", "e">>,
   <<"t", "y", "p", "e">>,
   <<"c", "o", "n", "t", "i", "n", "u", "e">>,
   <<"f", "o", "r">>,
   <<"i", "m", "p", "o", "r", "t">>,
   <<"r", "e", "t", "u", "r", "n">>,
   <<"v", "a", "r">>}
\* reservedWords[identifier]: the empty string for a key not in the table
NoString == <<>>
reservedWords(identifier) ==
  IF identifier \in ReservedKeys THEN identifier \o <<"_">> ELSE NoString

\* the xsd2GoTypes table, as the set of its <<key, value>> entries
Xsd2GoEntries ==
  {
<<<<"s", "t", "r", "i", "n", "g">>, <<"s", "t", "r", "i", "n", "g">>>>,
   <<<<"t", "o", "k", "e", "n">>, <<"s", "t", "r", "i", "n", "g">>>>,
   <<<<"f", "l", "o", "a", "t">>, <<"f", "l", "o", "a", "t", "3", "2">>>>,
   <<<<"d", "o", "u", "b", "l", "e">>, <<"f", "l", "o", "a", "t", "6", "4">>>>,
   <<<<"d", "e", "c", "i", "m", "a", "l">>, <<"f", "l", "o", "a", "t", "6", "4">>>>,
   <<<<"i", "n", "t", "e", "g", "e", "r">>, <<"i", "n", "t", "3", "2">>>>,
   <<<<"i", "n", "t">>, <<"i", "n", "t", "3", "2">>>>,
   <<<<"s", "h", "o", "r", "t">>, <<"i", "n", "t", "1", "6">>>>,
   <<<<"b", "y", "t", "e">>, <<"i", "n", "t", "8">>>>,
   <<<<"l", "o", "n", "g">>, <<"i", "n", "t", "6", "4">>>>,
   <<<<"b", "o", "o", "l", "e", "a", "n">>, <<"b", "o", "o", "l">>>>,
   <<<<"d", "a", "t", "e", "t", "i", "m", "e">>, <<"t", "i", "m", "e", ".", "T", "i", "m", "e">>>>,
   <<<<"d", "a", "t", "e">>, <<"t", "i", "m", "e", ".", "T", "i", "m", "e">>>>,
   <<<<"t", "i", "m", "e">>, <<"t", "i", "m", "e", ".", "T", "i", "m", "e">>>>,
   <<<<"b", "a", "s", "e", "6", "4", "b", "i", "n", "a", "r", "y">>, <<"[", "]", "b", "y", "t", "e">>>>,
   <<<<"h", "e", "x", "b", "i", "n", "a", "r", "y">>, <<"[", "]", "b", "y", "t", "e">>>>,
   <<<<"u", "n", "s", "i", "g", "n", "e", "d", "i", "n", "t">>, <<"u", "i", "n", "t", "3", "2">>>>,
   <<<<"u", "n", "s", "i", "g", "n", "e", "d", "s", "h", "o", "r", "t">>, <<"u", "i", "n", "t", "1", "6">>>>,
   <<<<"u", "n", "s", "i", "g", "n", "e", "d", "b", "y", "t", "e">>, <<"b", "y", "t", "e">>>>,
   <<<<"u", "n", "s", "i", "g", "n", "e", "d", "l", "o", "n", "g">>, <<"u", "i", "n", "t", "6", "4">>>>,
   <<<<"a", "n", "y", "t", "y", "p", "e">>, <<"i", "n", "t", "e", "r", "f", "a", "c", "e", "{", "}">>>>}
xsd2GoTypesMut(key) == NoString
xsd2GoTypes(key) ==
  IF \E e \in Xsd2GoEntries : e[1] = key
  THEN (CHOOSE e \in Xsd2GoEntries : e[1] = key)[2]
  ELSE NoString

\* normalize: strings.Map dropping every rune that is no letter, digit or '_'
normalize(value) ==
  SelectSeq(value, LAMBDA r : IsLetter(r) \/ IsDigit(r) \/ r = "_")

\* replaceReservedWords: the table is consulted with the identifier as given,
\* and only an identifier that misses it is normalized
replaceReservedWords(identifier) ==
  LET value == reservedWords(identifier)
  IN IF value # NoString THEN value ELSE normalize(identifier)

\* the package-level makePublic: the first rune in upper case
makePublicMut(identifier) == identifier
makePublic(identifier) ==
  IF Len(identifier) = 0 THEN identifier
  ELSE <<ToUpper(Head(identifier))>> \o Tail(identifier)

\* the closure makePublic handed to the templates; it is declared after
\* toGoTypeNs, whose call therefore binds to the package-level function
makePublicTmpl(identifier) ==
  IF ~exportAllTypes THEN identifier ELSE makePublic(identifier)

\* toGoTypeNs and toGoType
toGoTypeNs(xsdType, ns) ==
  LET r == Split(xsdType, ":")
      t == IF Len(r) = 2 THEN r[2] ELSE r[1]
      value == xsd2GoTypes(StringsToLower(t))
  IN IF value # NoString THEN value
     ELSE <<"*">> \o replaceReservedWords(
            makePublic(IF ~ignoreTypeNs /\ ns # NoString THEN ns \o t ELSE t))
toGoType(xsdType) == toGoTypeNs(xsdType, NoString)

\* stripns
stripnsMut(xsdType) == xsdType
stripns(xsdType) ==
  LET r == Split(xsdType, ":")
  IN IF Len(r) = 2 THEN r[2] ELSE r[1]

\* strings.EqualFold on the letters modelled
EqualFold(a, b) == StringsToLower(a) = StringsToLower(b)

\* findType: `if msg.Name != message { continue }`
NameDiffersMut(msg, message) == FALSE
NameDiffers(msg, message) == msg.Name # message

\* the two inner loops of findType: the elements of the schemas from schema
\* s, element e on, searched for the first whose name folds to elRef
RECURSIVE FindElement(_, _, _, _)
FindElement(ss, s, e, elRef) ==
  IF s > Len(ss) THEN [found |-> FALSE]
  ELSE IF e > Len(ss[s].Elements) THEN FindElement(ss, s + 1, 1, elRef)
  ELSE IF EqualFold(elRef, ss[s].Elements[e].Name)
       THEN [found |-> TRUE, el |-> ss[s].Elements[e]]
       ELSE FindElement(ss, s, e + 1, elRef)

\* the loop of findType over g.wsdl.Messages, from message i on
RECURSIVE FindTypeFrom(_, _, _, _)
FindTypeFrom(messages, i, message, ss) ==
  IF i > Len(messages) THEN NoString
  ELSE LET msg == messages[i]
       IN IF NameDiffers(msg, message) THEN FindTypeFrom(messages, i + 1, message, ss)
          ELSE IF Len(msg.Parts) = 0 THEN FindTypeFrom(messages, i + 1, message, ss)
          ELSE LET part == msg.Parts[1]
               IN IF part.Type # NoString THEN stripns(part.Type)
                  ELSE LET m == FindElement(ss, 1, 1, stripns(part.Element))
                       IN IF m.found
                          THEN IF m.el.Type # NoString THEN stripns(m.el.Type)
                               ELSE m.el.Name
                          ELSE FindTypeFrom(messages, i + 1, message, ss)
findType(message, messages, ss) == FindTypeFrom(messages, 1, stripns(message), ss)

(* ------------------------------ Generator ----------------------------- *)
\* the four data.Write calls of Generate
ConcatenateMut(goCode) ==
  Entry(goCode, "header") \o Entry(goCode, "operations") \o Entry(goCode, "types")
    \o Entry(goCode, "soap")
Concatenate(goCode) ==
  Entry(goCode, "header") \o Entry(goCode, "types") \o Entry(goCode, "operations")
    \o Entry(goCode, "soap")

\* Generate after Start has returned without error: the output directory and
\* file are created (or Generate returns), then the buffers are written to
\* data in turn
Generate ==
  /\ pc = "done"
  /\ startRet.returned
  /\ startRet.err = NoError
  /\ \E created \in BOOLEAN :
       IF created
       THEN /\ data' = Concatenate(startRet.gocode)
            /\ pc' = "written"
       ELSE /\ data' = data
            /\ pc' = "aborted"
  /\ UNCHANGED <<world, ignoreTypeNs, exportAllTypes, schemas, resolvedXSDExternals,
                 currentRecursionLevel, stack, rootIdx, err, fetchLog, expanded,
                 refined>>
  /\ UNCHANGED <<emitVars, fnVars>>

(* --------------------------- the generation run ----------------------- *)
NoCall == [op |-> "none"]
NotDone == [done |-> FALSE]
Done(v) == [done |-> TRUE, value |-> v]
EmptyMap == [k \in {} |-> EmptyBytes]

Init ==
  /\ world \in Worlds
  /\ ignoreTypeNs \in BOOLEAN
  /\ exportAllTypes = FALSE
  /\ pc = "start"
  /\ schemas = <<>>
  /\ resolvedXSDExternals = {}
  /\ currentRecursionLevel = 0
  /\ stack = <<>>
  /\ rootIdx = 0
  /\ err = NoError
  /\ fetchLog = <<>>
  /\ expanded = 0
  /\ refined = FALSE
  /\ gocode = EmptyMap
  /\ task = [g \in Goroutines |-> "idle"]
  /\ local = [g \in Goroutines |-> NoResult]
  /\ raced = {}
  /\ started = {}
  /\ failed = {}
  /\ startRet = NotReturned
  /\ call = NoCall
  /\ ret = NotDone
  /\ data = EmptyBytes

Next ==
  \/ Unmarshal
  \/ UnmarshalLoop
  \/ ResolveEnter
  \/ ImportStep
  \/ IncludeStep
  \/ Refine
  \/ \E g \in Goroutines : Render(g)
  \/ \E g \in Goroutines : BeginAssign(g)
  \/ \E g \in Goroutines : EndAssign(g)
  \/ Wait
  \/ GenHeader
  \/ GenSOAPClient
  \/ Generate

vars == <<resolverVars, emitVars, fnVars, data>>
Spec == Init /\ [][Next]_vars

\* Start up to and including refineRawWsdlData
LoadNext ==
  \/ Unmarshal
  \/ UnmarshalLoop
  \/ ResolveEnter
  \/ ImportStep
  \/ IncludeStep
  \/ Refine
LoadSpec == Init /\ [][LoadNext]_vars

\* every goroutine that can run does run, and Start's own steps are taken
(* ------------------ the helpers called on their own ------------------- *)
(* The deduplicator and the template helpers are functions of their        *)
(* arguments and of the two options of the generator; here each is called  *)
(* once on an argument drawn from a bounded set.                           *)
IdentChars == {"g", "o", "i", "f", "T", "1", "_", "-"}
Identifiers ==
  SeqsUpTo(IdentChars, MaxIdentLen)
    \cup {<<"t", "y", "p", "e">>, <<"O", "r", "d", "e", "r", "-", "#", "1">>}

RefChars == {"f", "T", ":", "-"}
PrimitiveRefs ==
  UNION {{e[1], <<"x", "s", ":">> \o e[1], makePublic(e[1]),
          <<"x", "s", "d", ":">> \o makePublic(e[1])} : e \in Xsd2GoEntries}
TypeRefs ==
  SeqsUpTo(RefChars, MaxIdentLen)
    \cup PrimitiveRefs
    \cup {<<"x", "s", ":", "s", "t", "r", "i", "n", "g">>, <<"x", "s", "d", ":", "d", "a", "t", "e", "T", "i", "m", "e">>, <<"t", "n", "s", ":", "g", "o">>, <<"t", "n", "s", ":", "f", "o", "o">>, <<"F", "o", "o">>}
Namespaces == {NoString, <<"n", "s">>}

\* the schema list handed to removeTypeDuplicates: one or two schemas with
\* up to MaxTypes simple and complex types all together; a type carries its
\* name and the place of its declaration
TypeNames == {"T", "U"}
TargetNamespaces == {"urn:a", "urn:b"}
RECURSIVE NameListTuples(_, _)
NameListTuples(n, budget) ==
  IF n = 0 THEN {<<>>}
  ELSE UNION {{<<l>> \o rest : rest \in NameListTuples(n - 1, budget - Len(l))} :
                l \in SeqsUpTo(TypeNames, budget)}
Declared(names, i, k) ==
  [p \in DOMAIN names |-> [Name |-> names[p], decl |-> <<i, k, p>>]]
InputSchema(i, ns, simple, complex) ==
  [TargetNamespace |-> ns,
   SimpleType      |-> Declared(simple, i, 1),
   ComplexTypes    |-> Declared(complex, i, 2),
   Elements        |-> [e \in 1..i |-> [Name |-> <<"e">>, Type |-> NoString]],
   Imports         |-> <<i>>,
   Includes        |-> <<NoRef, i>>]
SchemaLists ==
  {<<InputSchema(1, "urn:a", t[1], t[2])>> : t \in NameListTuples(2, MaxTypes)}
    \cup {<<InputSchema(1, "urn:a", t[1], t[2]), InputSchema(2, ns, t[3], t[4])>> :
            t \in NameListTuples(4, MaxTypes), ns \in TargetNamespaces}

\* the model findType reads: g.wsdl.Messages (one or two messages named M or
\* N, each with no, one or two parts) and the Elements of one or two schemas
PartValues ==
  {[Type |-> <<"x", ":", "A">>, Element |-> NoString],
   [Type |-> NoString, Element |-> <<"t", ":", "e">>],
   [Type |-> NoString, Element |-> <<"t", ":", "h">>]}
LaterPart == [Type |-> <<"x", ":", "B">>, Element |-> NoString]
PartLists ==
  {<<>>} \cup {<<a>> : a \in PartValues} \cup {<<a, LaterPart>> : a \in PartValues}
MessageValues == {[Name |-> n, Parts |-> ps] : n \in {<<"M">>, <<"N">>}, ps \in PartLists}
MessageLists ==
  {<<a>> : a \in MessageValues} \cup {<<a, b>> : a \in MessageValues, b \in MessageValues}
MessageArgs == {<<"M">>, <<"t", ":", "M">>}
ElementValues ==
  {[Name |-> <<"e">>, Type |-> NoString],
   [Name |-> <<"E">>, Type |-> <<"x", ":", "C">>],
   [Name |-> <<"g">>, Type |-> <<"D">>]}
ElementLists == SeqsUpTo(ElementValues, 2)
ElementSchemas == {[Elements |-> es] : es \in ElementLists}
ElementSchemaLists ==
  {<<a>> : a \in ElementSchemas} \cup {<<a, b>> : a \in ElementSchemas, b \in ElementSchemas}

Calls ==
  {[op |-> "replaceReservedWords", identifier |-> x] : x \in Identifiers}
    \cup {[op |-> "toGoTypeNs", xsdType |-> x, ns |-> n] : x \in TypeRefs, n \in Namespaces}
    \cup {[op |-> "toGoType", xsdType |-> x] : x \in TypeRefs}
    \cup {[op |-> "removeTypeDuplicates", schemas |-> ss] : ss \in SchemaLists}
    \cup {[op |-> "makePublic", identifier |-> x] : x \in Identifiers}
    \cup {[op |-> "findType", message |-> x, messages |-> ms, schemas |-> ss] :
             x \in MessageArgs, ms \in MessageLists, ss \in ElementSchemaLists}

\* which options the called helper reads
ReadsIgnoreTypeNs(c) == c.op \in {"toGoTypeNs", "toGoType", "removeTypeDuplicates"}

FnInit ==
  /\ call \in Calls
  /\ ignoreTypeNs \in (IF ReadsIgnoreTypeNs(call) THEN BOOLEAN ELSE {FALSE})
  /\ exportAllTypes \in (IF call.op \in {"toGoTypeNs", "toGoType", "makePublic"}
                         THEN BOOLEAN ELSE {FALSE})
  /\ ret = NotDone
  /\ data = EmptyBytes
  /\ pc = "idle"
  /\ world = EmptyWorld(0)
  /\ schemas = <<>>
  /\ resolvedXSDExternals = {}
  /\ currentRecursionLevel = 0
  /\ stack = <<>>
  /\ rootIdx = 0
  /\ err = NoError
  /\ fetchLog = <<>>
  /\ expanded = 0
  /\ refined = FALSE
  /\ gocode = EmptyMap
  /\ task = [g \in Goroutines |-> "idle"]
  /\ local = [g \in Goroutines |-> NoResult]
  /\ raced = {}
  /\ started = {}
  /\ failed = {}
  /\ startRet = NotReturned

Returns(op, v) ==
  /\ pc = "idle"
  /\ call.op = op
  /\ ~ret.done
  /\ ret' = Done(v)
  /\ UNCHANGED <<resolverVars, emitVars, call, data>>

CallReplaceReservedWords ==
  /\ call.op = "replaceReservedWords"
  /\ Returns("replaceReservedWords", replaceReservedWords(call.identifier))
CallToGoTypeNs ==
  /\ call.op = "toGoTypeNs"
  /\ Returns("toGoTypeNs", toGoTypeNs(call.xsdType, call.ns))
CallToGoType ==
  /\ call.op = "toGoType"
  /\ Returns("toGoType", toGoType(call.xsdType))
CallRemoveTypeDuplicates ==
  /\ call.op = "removeTypeDuplicates"
  /\ Returns("removeTypeDuplicates", removeTypeDuplicates(call.schemas, ignoreTypeNs))
CallFindType ==
  /\ call.op = "findType"
  /\ Returns("findType", findType(call.message, call.messages, call.schemas))
CallMakePublic ==
  /\ call.op = "makePublic"
  /\ Returns("makePublic", makePublicTmpl(call.identifier))

\* refine called once more on the schemas the first call left
CallRemoveTypeDuplicatesAgain ==
  /\ pc = "idle"
  /\ call.op = "removeTypeDuplicates"
  /\ ret.done
  /\ "second" \notin DOMAIN ret
  /\ ret' = [done |-> TRUE, value |-> ret.value,
             second |-> removeTypeDuplicates(ret.value, ignoreTypeNs)]
  /\ UNCHANGED <<resolverVars, emitVars, call, data>>

FnNext ==
  \/ CallReplaceReservedWords
  \/ CallToGoTypeNs
  \/ CallToGoType
  \/ CallRemoveTypeDuplicates
  \/ CallRemoveTypeDuplicatesAgain
  \/ CallFindType
  \/ CallMakePublic

FnSpec == FnInit /\ [][FnNext]_vars

(* ======================= External Reference Resolver ================== *)
\* unmarshal has returned nil
ResolutionSucceeded ==
  \/ pc \in {"refine", "render", "header", "soap", "crashed"}
  \/ pc = "done" /\ startRet = Returned(gocode, NoError)

\* a fetch, a parse or a location failed and the error is on its way up
ResolutionFailed == pc \in {"resolve", "done"} /\ ~refined /\ err # NoError

RefsOf(sch) == Range(sch.Imports) \cup Range(sch.Includes)
SchemasAt(l) == {i \in 1..Len(schemas) : schemas[i].loc = l}

\* how many import/include attributes of the documents name location l
RefsIn(shape, l) == Count(shape.Imports, l) + Count(shape.Includes, l)
RECURSIVE SumOver(_, _)
SumOver(f, S) ==
  IF S = {} THEN 0
  ELSE LET x == CHOOSE y \in S : TRUE IN f[x] + SumOver(f, S \ {x})
RefCount(w, l) ==
  SumOver([i \in 1..Len(w.roots) |-> RefsIn(w.roots[i], l)], 1..Len(w.roots))
  + SumOver([m \in ExtLocs |-> RefsIn(w.ext[m], l)], ExtLocs)
  + (IF w.fan > 0 /\ l \in FanLocs /\ l # FanLoc(1) THEN 1 ELSE 0)

\* the elements occurring more than once in a sequence
Repeated(s) ==
  IF Cardinality(Range(s)) = Len(s) THEN {}
  ELSE {x \in Range(s) : Count(s, x) >= 2}
SchemaLocs == [i \in 1..Len(schemas) |-> schemas[i].loc]

\* C1: a location that two or more import/include references name is fetched
\* (and parsed) at most once in a run and has at most one schema in the
\* Resolved Schema Set -- the "no more than once" half of "exactly once".
C1_FetchedOnce ==
  \A l \in (Repeated(fetchLog) \cup Repeated(SchemaLocs)) \ {RootLoc} :
    RefCount(world, l) < 2

\* C2: after a successful resolution every import and include with a non-empty
\* schemaLocation, in every schema of the Resolved Schema Set (every embedded
\* schema of the root WSDL included), names a visited location whose schema
\* is in the set.
C2_EveryReferenceResolved ==
  ResolutionSucceeded =>
    \A i \in 1..Len(schemas) : \A r \in RefsOf(schemas[i]) \ {NoRef} :
      /\ r \in resolvedXSDExternals
      /\ r = RootLoc \/ SchemasAt(r) # {}

\* the import cycles the resolver is led into: A -> B -> A below the first
\* embedded schema, and root -> B -> root
ExtRefs(w, l) == Range(w.ext[l].Imports) \cup Range(w.ext[l].Includes)
FirstRootRefs(w) ==
  IF Len(w.roots) >= 1
  THEN Range(w.roots[1].Imports) \cup Range(w.roots[1].Includes)
  ELSE {}
CyclePairs(w) ==
  {p \in ExtLocs \X ExtLocs :
     /\ p[1] # p[2]
     /\ p[1] \in FirstRootRefs(w)
     /\ p[2] \in ExtRefs(w, p[1])
     /\ p[1] \in ExtRefs(w, p[2])}
RootCycles(w) ==
  {b \in ExtLocs : b \in FirstRootRefs(w) /\ RootLoc \in ExtRefs(w, b)}
HasCycle(w) == CyclePairs(w) # {} \/ RootCycles(w) # {}

\* the runs over a document graph with an import cycle; the resolver is
\* sequential code, so a step that can be taken is taken
CycleInit == Init /\ HasCycle(world) /\ ~ignoreTypeNs
ResolveNext ==
  \/ Unmarshal
  \/ UnmarshalLoop
  \/ ResolveEnter
  \/ ImportStep
  \/ IncludeStep
CycleSpec == CycleInit /\ [][ResolveNext]_vars /\ WF_vars(ResolveNext)

ResolutionEnded == pc \notin {"start", "resolve"}

\* C3: resolving an import cycle ends, and when it has ended without a failed
\* fetch both schemas of the cycle are in the Resolved Schema Set exactly once.
C3_CycleResolves ==
  /\ <>ResolutionEnded
  /\ [](ResolutionSucceeded =>
          /\ \A p \in CyclePairs(world) :
               /\ Cardinality(SchemasAt(p[1])) = 1
               /\ Cardinality(SchemasAt(p[2])) = 1
          /\ \A b \in RootCycles(world) :
               /\ Cardinality(SchemasAt(b)) = 1
               /\ SchemasAt(RootLoc) = 1..Len(world.roots))

\* C3 witness: the resolution of A -> B -> A has ended in success, with both.
C3_Witness ==
  /\ pc = "refine"
  /\ CyclePairs(world) # {}
  /\ \A p \in CyclePairs(world) : SchemasAt(p[1]) # {} /\ SchemasAt(p[2]) # {}

\* C5: once a fetch or a parse has failed nothing more is fetched, no schema is
\* added, neither dedup nor any rendering runs, and when Start returns it
\* returns that error and no artifacts.
C5_FailureAborts ==
  [][ResolutionFailed =>
        /\ fetchLog' = fetchLog
        /\ schemas' = schemas
        /\ refined' = FALSE
        /\ started' = {}
        /\ err' = err
        /\ pc' \in {"resolve", "done"}
        /\ pc' = "done" => startRet' = Returned(NilMap, err)]_vars

\* C5 witness: a document two levels down failed to load while the embedded
\* schema still had a reference to an unvisited document; Start has returned.
C5_Witness ==
  /\ pc = "done"
  /\ startRet = Returned(NilMap, FetchError)
  /\ Len(fetchLog) >= 3
  /\ Len(schemas) >= 2
  /\ \E r \in RefsOf(schemas[1]) \ {NoRef} : r \notin Range(fetchLog)

\* C8: the recursion counter never decreases during a run, and at most
\* maxRecursion resolver entries expand a schema.
C8_CounterBoundsExpansion ==
  [][/\ currentRecursionLevel' >= currentRecursionLevel
     /\ expanded' <= maxRecursion]_vars

(* ====================== Code Emission Orchestrator ==================== *)
\* C6: the two rendering goroutines share no mutable state: at no moment is
\* one of them writing an object that the other is writing (or reading).
C6_NoSharedWrite ==
  ~(task["types"] = "writing" /\ task["operations"] = "writing")

\* C7: when the rendering of exactly one artifact fails, Start is not stopped,
\* and the map it returns with a nil error has an empty entry for the failed
\* artifact and the complete output for each of the other three.
C7_FailureIsolated ==
  Cardinality(failed) = 1 =>
    /\ pc # "crashed"
    /\ startRet.returned =>
         /\ startRet.err = NoError
         /\ \A a \in Artifacts :
              Entry(startRet.gocode, a) =
                IF a \in failed THEN EmptyBytes ELSE Rendered(a)

(* =========================== Type Deduplicator ======================== *)
\* the walk order of the declarations and the Type Key of the glossary: the
\* pair (target namespace, local name), or the local name alone when
\* namespaces are ignored
TypesOf(ss, i, k) == IF k = 1 THEN ss[i].SimpleType ELSE ss[i].ComplexTypes
Positions(ss) ==
  UNION {{<<i, k, p>> : p \in DOMAIN TypesOf(ss, i, k)} : i \in DOMAIN ss, k \in {1, 2}}
Before(a, b) ==
  \/ a[1] < b[1]
  \/ a[1] = b[1] /\ a[2] < b[2]
  \/ a[1] = b[1] /\ a[2] = b[2] /\ a[3] < b[3]
TypeKey(ss, a, ignore) ==
  IF ignore THEN <<TypesOf(ss, a[1], a[2])[a[3]].Name>>
  ELSE <<ss[a[1]].TargetNamespace, TypesOf(ss, a[1], a[2])[a[3]].Name>>
FirstMet(ss, ignore) ==
  {a \in Positions(ss) :
     \A b \in Positions(ss) : Before(b, a) => TypeKey(ss, b, ignore) # TypeKey(ss, a, ignore)}
DedupReturned == call.op = "removeTypeDuplicates" /\ ret.done

\* C4: after removeTypeDuplicates every list holds exactly the declarations
\* that are the first met in walk order for their Type Key, unchanged and in
\* their original relative order, and over all schemas no two survivors
\* share a Type Key.
C4_FirstMetSurvives ==
  DedupReturned =>
    LET first == FirstMet(call.schemas, ignoreTypeNs)
    IN /\ Len(ret.value) = Len(call.schemas)
       /\ \A i \in DOMAIN call.schemas : \A k \in {1, 2} :
            TypesOf(ret.value, i, k) =
              SelectSeq(TypesOf(call.schemas, i, k), LAMBDA t : t.decl \in first)
       /\ \A a \in Positions(ret.value) : \A b \in Positions(ret.value) :
            a # b => TypeKey(ret.value, a, ignoreTypeNs) # TypeKey(ret.value, b, ignoreTypeNs)

\* a call that dropped a later declaration in the same list, one in the
\* complex types of the same schema and one in another schema, and kept two
\* declarations of one list in order
C4_Witness ==
  /\ DedupReturned
  /\ Len(call.schemas) = 2
  /\ \E a \in Positions(call.schemas) : \E b \in Positions(call.schemas) :
       /\ a[1] = 1 /\ b[1] = 2
       /\ TypeKey(call.schemas, a, ignoreTypeNs) = TypeKey(call.schemas, b, ignoreTypeNs)
  /\ \E a \in Positions(call.schemas) : \E b \in Positions(call.schemas) :
       /\ a[1] = b[1] /\ a[2] # b[2]
       /\ TypeKey(call.schemas, a, ignoreTypeNs) = TypeKey(call.schemas, b, ignoreTypeNs)
  /\ \E i \in DOMAIN ret.value : \E k \in {1, 2} :
       /\ Len(TypesOf(ret.value, i, k)) = 2
       /\ Len(TypesOf(call.schemas, i, k)) = 2
  /\ ret.value # call.schemas

(* ========================= Mapper / Lookup Helpers ==================== *)
\* C9: replaceReservedWords returns the identifier stripped of every
\* character that is no letter, digit or underscore, with an underscore
\* appended when the stripped identifier is a reserved word; so what it
\* returns is never a reserved word.
C9_StrippedThenChecked ==
  (call.op = "replaceReservedWords" /\ ret.done) =>
    LET stripped == normalize(call.identifier)
    IN /\ ret.value = IF stripped \in ReservedKeys THEN stripped \o <<"_">> ELSE stripped
       /\ ret.value \notin ReservedKeys

\* C10: for a reference whose local name is not in the primitive table,
\* toGoTypeNs / toGoType return "*" followed by the local name alone when
\* namespaces are ignored or no namespace is given, and by the namespace
\* followed by the local name otherwise; with exportAllTypes off the name is
\* as given.  Stated for references with at most one colon and a local name
\* made of letters.
Colons(x) == Len(SelectSeq(x, LAMBDA r : r = ":"))
LocalName(x) == Last(Split(x, ":"))
C10_NominalPointerType ==
  (/\ call.op \in {"toGoTypeNs", "toGoType"}
   /\ ret.done
   /\ ~exportAllTypes
   /\ Colons(call.xsdType) <= 1
   /\ LocalName(call.xsdType) # NoString
   /\ \A i \in DOMAIN LocalName(call.xsdType) : IsLetter(LocalName(call.xsdType)[i])
   /\ xsd2GoTypes(StringsToLower(LocalName(call.xsdType))) = NoString) =>
    LET ns == IF call.op = "toGoTypeNs" THEN call.ns ELSE NoString
        name == LocalName(call.xsdType)
    IN ret.value = <<"*">> \o (IF ignoreTypeNs \/ ns = NoString THEN name ELSE ns \o name)

\* the primitive mapping as the specification lists it (names in lower case)
ClaimedPrimitives ==
  {<<<<"s", "t", "r", "i", "n", "g">>, <<"s", "t", "r", "i", "n", "g">>>>,
   <<<<"t", "o", "k", "e", "n">>, <<"s", "t", "r", "i", "n", "g">>>>,
   <<<<"f", "l", "o", "a", "t">>, <<"f", "l", "o", "a", "t", "3", "2">>>>,
   <<<<"d", "o", "u", "b", "l", "e">>, <<"f", "l", "o", "a", "t", "6", "4">>>>,
   <<<<"d", "e", "c", "i", "m", "a", "l">>, <<"f", "l", "o", "a", "t", "6", "4">>>>,
   <<<<"i", "n", "t", "e", "g", "e", "r">>, <<"i", "n", "t", "3", "2">>>>,
   <<<<"i", "n", "t">>, <<"i", "n", "t", "3", "2">>>>,
   <<<<"s", "h", "o", "r", "t">>, <<"i", "n", "t", "1", "6">>>>,
   <<<<"b", "y", "t", "e">>, <<"i", "n", "t", "8">>>>,
   <<<<"l", "o", "n", "g">>, <<"i", "n", "t", "6", "4">>>>,
   <<<<"b", "o", "o", "l", "e", "a", "n">>, <<"b", "o", "o", "l">>>>,
   <<<<"d", "a", "t", "e", "t", "i", "m", "e">>, <<"t", "i", "m", "e", ".", "T", "i", "m", "e">>>>,
   <<<<"d", "a", "t", "e">>, <<"t", "i", "m", "e", ".", "T", "i", "m", "e">>>>,
   <<<<"t", "i", "m", "e">>, <<"t", "i", "m", "e", ".", "T", "i", "m", "e">>>>,
   <<<<"b", "a", "s", "e", "6", "4", "b", "i", "n", "a", "r", "y">>, <<"[", "]", "b", "y", "t", "e">>>>,
   <<<<"h", "e", "x", "b", "i", "n", "a", "r", "y">>, <<"[", "]", "b", "y", "t", "e">>>>,
   <<<<"u", "n", "s", "i", "g", "n", "e", "d", "i", "n", "t">>, <<"u", "i", "n", "t", "3", "2">>>>,
   <<<<"u", "n", "s", "i", "g", "n", "e", "d", "s", "h", "o", "r", "t">>, <<"u", "i", "n", "t", "1", "6">>>>,
   <<<<"u", "n", "s", "i", "g", "n", "e", "d", "b", "y", "t", "e">>, <<"b", "y", "t", "e">>>>,
   <<<<"u", "n", "s", "i", "g", "n", "e", "d", "l", "o", "n", "g">>, <<"u", "i", "n", "t", "6", "4">>>>,
   <<<<"a", "n", "y", "t", "y", "p", "e">>, <<"i", "n", "t", "e", "r", "f", "a", "c", "e", "{", "}">>>>}
MapperReturned == call.op \in {"toGoTypeNs", "toGoType"} /\ ret.done

\* C11: a type reference whose local name (prefix stripped, letter case
\* ignored) is in the primitive table is mapped to the entry of the table,
\* whatever the namespace argument and the two options are.  References
\* are QNames: at most one colon.
C11_PrimitiveMapped ==
  (MapperReturned /\ Colons(call.xsdType) <= 1) =>
    \A e \in ClaimedPrimitives :
      StringsToLower(LocalName(call.xsdType)) = e[1] => ret.value = e[2]

\* a prefixed, mixed-case primitive mapped with a namespace given, namespace
\* qualification on and exportAllTypes on
C11_Witness ==
  /\ MapperReturned
  /\ call.op = "toGoTypeNs"
  /\ call.xsdType = <<"x", "s", "d", ":", "D", "a", "t", "e", "t", "i", "m", "e">>
  /\ call.ns # NoString
  /\ ~ignoreTypeNs
  /\ exportAllTypes
  /\ ret.value = <<"t", "i", "m", "e", ".", "T", "i", "m", "e">>

(* ------------------------------ findType ------------------------------ *)
\* the Message with the name asked for: the messages whose name is the
\* argument without its prefix
FindTypeReturned == call.op = "findType" /\ ret.done
Named == {i \in DOMAIN call.messages : call.messages[i].Name = LocalName(call.message)}
TheMessage == call.messages[CHOOSE i \in Named : TRUE]

\* C12: when the Message with the name asked for has no Parts, findType
\* returns the empty string, whatever the other messages, their parts and the
\* elements of the schemas are.
C12_NoPartsGivesEmpty ==
  (FindTypeReturned /\ Cardinality(Named) = 1 /\ Len(TheMessage.Parts) = 0) =>
    ret.value = NoString

\* the message asked for has no parts while another message has a part with
\* an inline type and a schema holds an element
C12_Witness ==
  /\ FindTypeReturned
  /\ Cardinality(Named) = 1
  /\ Len(TheMessage.Parts) = 0
  /\ \E i \in DOMAIN call.messages :
       /\ i \notin Named
       /\ Len(call.messages[i].Parts) > 0
       /\ call.messages[i].Parts[1].Type # NoString
  /\ \E s \in DOMAIN call.schemas : Len(call.schemas[s].Elements) > 0
  /\ ret.value = NoString

\* the places <<schema, element>> of the elements whose name is ref, letter
\* case ignored, and the first of them in schema order
ElementsNamed(ref) ==
  {x \in UNION {{<<i, e>> : e \in DOMAIN call.schemas[i].Elements} : i \in DOMAIN call.schemas} :
     StringsToLower(call.schemas[x[1]].Elements[x[2]].Name) = StringsToLower(ref)}
FirstElementNamed(ref) ==
  LET x == CHOOSE a \in ElementsNamed(ref) :
             \A b \in ElementsNamed(ref) :
               a[1] < b[1] \/ (a[1] = b[1] /\ a[2] <= b[2])
  IN call.schemas[x[1]].Elements[x[2]]

\* C18: for a Message with at least one Part, findType looks at the first
\* Part only: an inline type is returned without its prefix; otherwise the
\* element reference without its prefix is matched, letter case ignored,
\* against the Elements of the schemas in order, and the first match gives
\* its type without prefix, or its own name when it has no type; with no
\* match the result is empty.
C18_FirstPartDecides ==
  (FindTypeReturned /\ Cardinality(Named) = 1 /\ Len(TheMessage.Parts) >= 1) =>
    LET part == TheMessage.Parts[1]
        ref == LocalName(part.Element)
    IN ret.value =
         IF part.Type # NoString THEN LocalName(part.Type)
         ELSE IF ElementsNamed(ref) = {} THEN NoString
         ELSE IF FirstElementNamed(ref).Type # NoString
              THEN LocalName(FirstElementNamed(ref).Type)
              ELSE FirstElementNamed(ref).Name

\* a message of two parts whose first part refers to an element that two
\* elements match, in letter case only, in different schemas
C18_Witness ==
  /\ FindTypeReturned
  /\ Cardinality(Named) = 1
  /\ Len(TheMessage.Parts) = 2
  /\ TheMessage.Parts[1].Type = NoString
  /\ Cardinality({x[1] : x \in ElementsNamed(LocalName(TheMessage.Parts[1].Element))}) = 2
  /\ Cardinality({call.schemas[x[1]].Elements[x[2]].Name :
                    x \in ElementsNamed(LocalName(TheMessage.Parts[1].Element))}) = 2
  /\ ret.value # NoString

(* ------------------------------ the join ------------------------------ *)
\* C13: the header is rendered only after both goroutines have finished, the
\* transport scaffold only after the header, and Start returns generated code
\* only after all four renderings have ended; no goroutine is running while
\* the header or the transport scaffold is rendered.
C13_JoinBarrier ==
  /\ (pc \in {"header", "soap"} \/ "header" \in started) =>
       \A g \in Goroutines : task[g] = "done"
  /\ "soap" \in started => "header" \in started
  /\ pc = "soap" => ("header" \in started /\ "soap" \notin started)
  /\ (startRet.returned /\ startRet.err = NoError) =>
       /\ started = Artifacts
       /\ \A g \in Goroutines : task[g] = "done"

\* Start has returned after the writes of the two goroutines overlapped
C13_Witness ==
  /\ pc = "done"
  /\ startRet.returned
  /\ startRet.err = NoError
  /\ started = Artifacts
  /\ raced # {}

(* --------------------------- export transform ------------------------- *)
\* C14: the template function makePublic, with exportAllTypes on, returns
\* the identifier with its first character in upper case and the rest as
\* given, and applying it to its own result changes nothing (an empty or
\* already capitalized identifier comes back unchanged); with exportAllTypes
\* off it returns every identifier unchanged.
C14_ExportTransform ==
  (call.op = "makePublic" /\ ret.done) =>
    /\ ~exportAllTypes => ret.value = call.identifier
    /\ exportAllTypes =>
         /\ Len(ret.value) = Len(call.identifier)
         /\ \A i \in DOMAIN call.identifier :
              ret.value[i] = IF i = 1 THEN ToUpper(call.identifier[1])
                             ELSE call.identifier[i]
         /\ makePublicTmpl(ret.value) = ret.value
         /\ (call.identifier = NoString \/ call.identifier[1] \notin Range(Lower)) =>
              ret.value = call.identifier

\* exportAllTypes on and an identifier that starts with a lower-case letter
C14_Witness ==
  /\ call.op = "makePublic"
  /\ ret.done
  /\ exportAllTypes
  /\ call.identifier = <<"g", "o", "T">>
  /\ ret.value = <<"G", "o", "T">>

(* ------------------------------ the output ---------------------------- *)
\* C15: what Generate hands to the formatter is the header buffer, then the
\* types buffer, then the operations buffer, then the transport scaffold
\* buffer of the map Start returned, each once, in whatever order the two
\* goroutines stored theirs.
C15_FixedOrder ==
  pc = "written" =>
    data = Entry(startRet.gocode, "header") \o Entry(startRet.gocode, "types")
             \o Entry(startRet.gocode, "operations") \o Entry(startRet.gocode, "soap")

\* all four rendered, and the output holds the four in the fixed order
C15_Witness ==
  /\ pc = "written"
  /\ failed = {}
  /\ data = Rendered("header") \o Rendered("types") \o Rendered("operations")
              \o Rendered("soap")

(* --------------------------- recursion ceiling ------------------------ *)
\* C16: a resolver entry that finds the counter above maxRecursion returns
\* nil at once: it fetches nothing, marks nothing and leaves the schema set
\* as it is (the schema fetched for it stays), and resolution goes on; an
\* error of unmarshal is never due to the ceiling.
C16_CeilingIsNotAnError ==
  /\ [][(/\ pc = "resolve"
         /\ stack # <<>>
         /\ Top.at = "enter"
         /\ currentRecursionLevel' > maxRecursion) =>
          /\ err' = NoError
          /\ stack' = Front(stack)
          /\ schemas' = schemas
          /\ fetchLog' = fetchLog
          /\ resolvedXSDExternals' = resolvedXSDExternals
          /\ pc' = "resolve"]_vars
  /\ [](err \in {NoError, FetchError, ParseError, LocationError})

\* the entry for the 100th document of the chain has just returned at the
\* ceiling: the document is in the schema set, it is not marked, the
\* document it imports has not been fetched, and no error is reported
C16_Witness ==
  /\ pc = "resolve"
  /\ currentRecursionLevel = maxRecursion + 1
  /\ err = NoError
  /\ SchemasAt(FanLoc(maxRecursion)) # {}
  /\ FanLoc(maxRecursion) \notin resolvedXSDExternals
  /\ FanLoc(maxRecursion + 1) \notin Range(fetchLog)
  /\ stack # <<>>
  /\ Top.loc = FanLoc(maxRecursion - 1)

(* ------------------------------ Type Key ------------------------------ *)
NameAt(a) == TypesOf(call.schemas, a[1], a[2])[a[3]].Name
NamespaceAt(a) == call.schemas[a[1]].TargetNamespace
Survives(a) ==
  \E b \in Positions(ret.value) : TypesOf(ret.value, b[1], b[2])[b[3]].decl = a

\* C17: with namespace qualification on (ignoreTypeNs false) a declaration
\* is dropped exactly when an earlier one has the same target namespace and
\* the same local name, so two of the same name in different namespaces both
\* survive; with qualification off it is dropped exactly when an earlier one
\* has the same local name, whatever the namespaces.
C17_KeyByToggle ==
  DedupReturned =>
    \A b \in Positions(call.schemas) :
      Survives(b) <=>
        ~\E a \in Positions(call.schemas) :
            /\ Before(a, b)
            /\ NameAt(a) = NameAt(b)
            /\ ignoreTypeNs \/ NamespaceAt(a) = NamespaceAt(b)

\* qualification on: the same name declared in two namespaces survives in
\* both, and a second declaration of it in the first namespace does not
C17_Witness ==
  /\ DedupReturned
  /\ ~ignoreTypeNs
  /\ \E a \in Positions(call.schemas) : \E b \in Positions(call.schemas) :
       \E c \in Positions(call.schemas) :
         /\ Before(a, b) /\ Before(b, c)
         /\ NameAt(a) = NameAt(b) /\ NameAt(b) = NameAt(c)
         /\ NamespaceAt(a) = NamespaceAt(b)
         /\ NamespaceAt(a) # NamespaceAt(c)
         /\ Survives(a) /\ ~Survives(b) /\ Survives(c)

(* ------------------------ growth of the model ------------------------- *)
RECURSIVE IsSubSeq(_, _)
IsSubSeq(a, b) ==
  IF a = <<>> THEN TRUE
  ELSE IF b = <<>> THEN FALSE
  ELSE IF Head(a) = Head(b) THEN IsSubSeq(Tail(a), Tail(b))
  ELSE IsSubSeq(a, Tail(b))
SameButTypes(x, y) ==
  /\ x.loc = y.loc
  /\ x.TargetNamespace = y.TargetNamespace
  /\ x.Imports = y.Imports
  /\ x.Includes = y.Includes

\* C19: every step of a run keeps each key of resolvedXSDExternals; every
\* step but the dedup step keeps the schemas it found, unchanged and in
\* place, and may only add schemas behind them; the dedup step keeps the
\* number and order of the schemas and only takes types out of their lists,
\* and it is taken when no resolver call is active and none follows.
C19_OnlyGrows ==
  [][/\ resolvedXSDExternals \subseteq resolvedXSDExternals'
     /\ Len(schemas') >= Len(schemas)
     /\ IF refined' # refined
        THEN /\ pc = "refine" /\ stack = <<>> /\ pc' = "render"
             /\ Len(schemas') = Len(schemas)
             /\ \A i \in DOMAIN schemas :
                  /\ SameButTypes(schemas'[i], schemas[i])
                  /\ IsSubSeq(schemas'[i].SimpleType, schemas[i].SimpleType)
                  /\ IsSubSeq(schemas'[i].ComplexTypes, schemas[i].ComplexTypes)
        ELSE \A i \in DOMAIN schemas : schemas'[i] = schemas[i]]_vars

\* after dedup: three keys are marked, three schemas were added behind the
\* root's, and a type list is shorter than the document declared it
C19_Witness ==
  /\ refined
  /\ Cardinality(resolvedXSDExternals) >= 3
  /\ Len(schemas) >= 4
  /\ \E i \in DOMAIN schemas :
       Len(schemas[i].ComplexTypes) < Len(ParsedSchema(world, schemas[i].loc).ComplexTypes)

(* --------------------------- order of resolution ---------------------- *)
\* the documents reached from a list of references, depth first: each
\* reference in turn, a document not seen before is taken and its own
\* references (imports, then includes) are followed before the next one
RECURSIVE Walk(_, _, _)
Walk(w, refs, st) ==
  IF refs = <<>> THEN st
  ELSE IF Head(refs) = NoRef \/ Head(refs) \in st.seen THEN Walk(w, Tail(refs), st)
  ELSE Walk(w, Tail(refs),
            Walk(w, DocShape(w, Head(refs)).Imports \o DocShape(w, Head(refs)).Includes,
                 [seen |-> st.seen \cup {Head(refs)},
                  order |-> Append(st.order, Head(refs))]))
PreOrder(w) ==
  IF Len(w.roots) = 0 THEN <<>>
  ELSE Walk(w, w.roots[1].Imports \o w.roots[1].Includes,
            [seen |-> {RootLoc}, order |-> <<>>]).order
IsPrefix(a, b) == Len(a) <= Len(b) /\ a = SubSeq(b, 1, Len(a))
LocSeq == [i \in DOMAIN schemas |-> schemas[i].loc]
Resolved == pc \in {"refine", "render"}

\* the keys of the types the documents of the schemas before schema i
\* declare, and those of the simple types of a schema's own document
DeclaredKeys(ts, ns) == {getFullTypeName(ts[p].Name, ns, ignoreTypeNs) : p \in DOMAIN ts}
SchemaKeys(i) ==
  DeclaredKeys(ParsedSchema(world, schemas[i].loc).SimpleType, schemas[i].TargetNamespace)
    \cup DeclaredKeys(ParsedSchema(world, schemas[i].loc).ComplexTypes,
                      schemas[i].TargetNamespace)
KeysBefore(i) == UNION {SchemaKeys(j) : j \in 1..(i - 1)}
NotIn(ts, ns, keys) ==
  SelectSeq(ts, LAMBDA t : getFullTypeName(t.Name, ns, ignoreTypeNs) \notin keys)

OnlyTypesRemoved(before, after) ==
  /\ Len(after) = Len(before)
  /\ \A i \in DOMAIN before :
       /\ after[i].TargetNamespace = before[i].TargetNamespace
       /\ after[i].Elements = before[i].Elements
       /\ after[i].Imports = before[i].Imports
       /\ after[i].Includes = before[i].Includes
       /\ IsSubSeq(after[i].SimpleType, before[i].SimpleType)
       /\ IsSubSeq(after[i].ComplexTypes, before[i].ComplexTypes)
DedupReturnedAgain == DedupReturned /\ "second" \in DOMAIN ret

\* C21: a run of removeTypeDuplicates keeps the number and order of the
\* schemas and each schema's target namespace, Elements, Imports and
\* Includes, and only takes types out of the two type lists; a second run
\* with the same ignoreTypeNs leaves every schema as the first run left it.
C21_IdempotentRemoval ==
  /\ DedupReturned => OnlyTypesRemoved(call.schemas, ret.value)
  /\ DedupReturnedAgain => ret.second = ret.value

\* two schemas of which the first run shortened a simple and a complex list,
\* run through dedup a second time
C21_Witness ==
  /\ DedupReturnedAgain
  /\ Len(call.schemas) = 2
  /\ \E i \in DOMAIN call.schemas :
       Len(ret.value[i].SimpleType) < Len(call.schemas[i].SimpleType)
  /\ \E i \in DOMAIN call.schemas :
       Len(ret.value[i].ComplexTypes) < Len(call.schemas[i].ComplexTypes)
  /\ \E i \in DOMAIN call.schemas : Len(ret.second[i].SimpleType) >= 1
  /\ ret.second = ret.value

====
